---- MODULE Spec2Model ----
(***************************************************************************)
(* A model of the flight scraper's search pipeline (src/src/index.ts):     *)
(* main -> useFileCache -> getFlightResults -> getFlights -> getCityInfo   *)
(* -> fetchSkyscanner, and the hand-over to writeToSpreadSheet.            *)
(*                                                                         *)
(* One behaviour is a sequence of process runs over the same working       *)
(* directory: the cache file survives from one run to the next, the        *)
(* module-level city mapping does not.                                     *)
(***************************************************************************)
EXTENDS Integers, Sequences, FiniteSets, TLC

\* Number of process runs in one behaviour.
MaxRuns == 2
\* Longest origins / destinations / dates list of a generated leg (SpecExpand).
MaxList == 2

(***************************************************************************)
(* Values                                                                  *)
(***************************************************************************)
Names == {"Budapest", "Berlin", "Corfu"}
Dates == {"2025-09-11", "2025-09-12"}

\* opt.date.replaceAll('-', '')
StripDashes(date) ==
  IF date = "2025-09-11" THEN "20250911"
  ELSE IF date = "2025-09-12" THEN "20250912"
  ELSE date

\* The deep link: only its variable segments are kept.
flightUrl(opt) ==
  <<"/transport/flights", opt.originId, opt.destinationId, StripDashes(opt.date)>>

\* A leg of the trip that is not configured (trip[type] is undefined).
Absent == [present |-> FALSE, origins |-> <<>>, destinations |-> <<>>, dates |-> <<>>]
LegOf(o, d, t) == [present |-> TRUE, origins |-> o, destinations |-> d, dates |-> t]

\* The unset entry of cache.cityInfo (undefined, falsy).
NoInfo == [skyId |-> "", entityId |-> ""]

SkyIdOf(name) ==
  IF name = "Budapest" THEN "BUD"
  ELSE IF name = "Berlin" THEN "BER"
  ELSE IF name = "Corfu" THEN "CFU"
  ELSE "XXX"

\* relevantFlightParams of a suggestion; entityId varies with the provider's
\* data at the time of the call.
Params(name, entity) == [skyId |-> SkyIdOf(name), entityId |-> entity]

(***************************************************************************)
(* Provider responses.  kind "reject": fetch() rejects (no connection);    *)
(* "badjson": the body is no JSON, res.json() rejects; "json": the body    *)
(* parsed, whatever the HTTP status (fetch resolves on 4xx/5xx and the     *)
(* code reads no status).                                                  *)
(***************************************************************************)
NoSuggestBody == [hasInputSuggest |-> FALSE, inputSuggest |-> <<>>]

LookupResponses(name) ==
  { [kind |-> "reject",  status |-> 0,   body |-> NoSuggestBody],
    [kind |-> "badjson", status |-> 502, body |-> NoSuggestBody],
    [kind |-> "json",    status |-> 429, body |-> NoSuggestBody],
    [kind |-> "json",    status |-> 200,
       body |-> [hasInputSuggest |-> TRUE, inputSuggest |-> <<>>]],
    [kind |-> "json",    status |-> 200,
       body |-> [hasInputSuggest |-> TRUE,
                 inputSuggest |-> <<[hasParams |-> FALSE, params |-> NoInfo]>>]],
    [kind |-> "json",    status |-> 200,
       body |-> [hasInputSuggest |-> TRUE,
                 inputSuggest |-> <<[hasParams |-> TRUE, params |-> Params(name, "1")]>>]],
    [kind |-> "json",    status |-> 200,
       body |-> [hasInputSuggest |-> TRUE,
                 inputSuggest |-> <<[hasParams |-> TRUE, params |-> Params(name, "2")],
                                    [hasParams |-> TRUE, params |-> Params("Berlin", "9")]>>]] }

FlightLeg(stops, dep, carriers) ==
  [stopCount |-> stops, origin |-> "Origin Airport", destination |-> "Destination Airport",
   departure |-> dep, arrival |-> "T08", carriers |-> carriers]

Item(legs, price) == [legs |-> legs, price |-> price]

NoData == [hasData |-> FALSE, hasItineraries |-> FALSE, hasBuckets |-> FALSE, buckets |-> <<>>]
BucketsBody(b) == [hasData |-> TRUE, hasItineraries |-> TRUE, hasBuckets |-> TRUE, buckets |-> b]

SearchResponses ==
  { [kind |-> "reject",  status |-> 0,   body |-> NoData],
    [kind |-> "badjson", status |-> 502, body |-> NoData],
    [kind |-> "json",    status |-> 429, body |-> NoData],
    [kind |-> "json",    status |-> 200, body |-> NoData],
    [kind |-> "json",    status |-> 200,
       body |-> [hasData |-> TRUE, hasItineraries |-> FALSE, hasBuckets |-> FALSE, buckets |-> <<>>]],
    [kind |-> "json",    status |-> 200,
       body |-> [hasData |-> TRUE, hasItineraries |-> TRUE, hasBuckets |-> FALSE, buckets |-> <<>>]],
    [kind |-> "json",    status |-> 200, body |-> BucketsBody(<<>>)],
    [kind |-> "json",    status |-> 200,
       body |-> BucketsBody(<<[items |-> <<Item(<<FlightLeg(0, "T06", <<"Test Air">>)>>, 123)>>]>>)],
    [kind |-> "json",    status |-> 200,
       body |-> BucketsBody(<<[items |-> <<Item(<<FlightLeg(1, "T05", <<"Slow Air">>)>>, 80),
                                           Item(<<FlightLeg(0, "T07", <<>>)>>, 99),
                                           Item(<<>>, 70),
                                           Item(<<FlightLeg(0, "T10", <<"Test Air">>)>>, 55)>>],
                              [items |-> <<Item(<<FlightLeg(0, "T09", <<"Late Air">>)>>, 60)>>]>>)] }

\* The provider stub of the end-to-end scenario: every lookup answers with one
\* suggestion, every search with one bucket holding one non-stop item.
StubLookup(name) ==
  { [kind |-> "json", status |-> 200,
       body |-> [hasInputSuggest |-> TRUE,
                 inputSuggest |-> <<[hasParams |-> TRUE, params |-> Params(name, "1")]>>]] }
StubSearch ==
  { [kind |-> "json", status |-> 200,
       body |-> BucketsBody(<<[items |-> <<Item(<<FlightLeg(0, "T06", <<"Test Air">>)>>, 123)>>]>>)] }

(***************************************************************************)
(* Pure parts of the code                                                  *)
(***************************************************************************)
\* result.inputSuggest?.[0]?.navigation?.relevantFlightParams (NoInfo: undefined)
FirstParams(body) ==
  IF body.hasInputSuggest /\ Len(body.inputSuggest) > 0 /\ body.inputSuggest[1].hasParams
  THEN body.inputSuggest[1].params
  ELSE NoInfo

\* result.data?.itineraries?.buckets?.[0] is defined
HasFirstBucket(body) ==
  body.hasData /\ body.hasItineraries /\ body.hasBuckets /\ Len(body.buckets) > 0

\* A filter that forgets the stop count.
IsNonStopAnyLeg(item) == Len(item.legs) > 0
\* item.legs[0]?.stopCount === 0
IsNonStop(item) == Len(item.legs) > 0 /\ item.legs[1].stopCount = 0

\* new Date(s)
NewDate(s) == [kind |-> "Date", v |-> s]
\* Date.prototype.toJSON
ToISOString(d) == [kind |-> "string", v |-> d.v \o ":00:00.000Z"]

Undefined == [kind |-> "undefined", v |-> ""]
Str(s) == [kind |-> "string", v |-> s]

\* The object pushed for one retained itinerary.
FlightOf(flight, opt, oInfo, dInfo) ==
  LET data == flight.legs[1] IN
  [date        |-> opt.date,
   origin      |-> data.origin,
   destination |-> data.destination,
   departsAt   |-> NewDate(data.departure),
   arrivesAt   |-> NewDate(data.arrival),
   url         |-> flightUrl([originId |-> oInfo.skyId,
                              destinationId |-> dInfo.skyId,
                              date |-> opt.date]),
   price       |-> flight.price,
   carrier     |-> IF Len(data.carriers) > 0 THEN Str(data.carriers[1]) ELSE Undefined]

\* getFlights from the parsed search response on: bucket, filter, map.
FlightsOf(body, opt, oInfo, dInfo) ==
  IF ~HasFirstBucket(body) THEN <<>>
  ELSE LET fightOptions == SelectSeq(body.buckets[1].items, IsNonStop)
       IN [n \in 1..Len(fightOptions) |->
             FlightOf(fightOptions[n], opt, oInfo, dInfo)]

\* The nested for-of loops of getFlightResults as a cursor over
\* (origin index, destination index, date index); LoopDone: all loops left.
LoopDone == [i |-> 0, j |-> 0, k |-> 0]

FirstIdx(leg) ==
  IF Len(leg.origins) = 0 \/ Len(leg.destinations) = 0 \/ Len(leg.dates) = 0
  THEN LoopDone
  ELSE [i |-> 1, j |-> 1, k |-> 1]

\* The loops nested the other way round: dates outermost, origins innermost.
NextIdxOriginInner(leg, x) ==
  IF x.i < Len(leg.origins) THEN [x EXCEPT !.i = x.i + 1]
  ELSE IF x.j < Len(leg.destinations) THEN [i |-> 1, j |-> x.j + 1, k |-> x.k]
  ELSE IF x.k < Len(leg.dates) THEN [i |-> 1, j |-> 1, k |-> x.k + 1]
  ELSE LoopDone

NextIdx(leg, x) ==
  IF x.k < Len(leg.dates) THEN [x EXCEPT !.k = x.k + 1]
  ELSE IF x.j < Len(leg.destinations) THEN [i |-> x.i, j |-> x.j + 1, k |-> 1]
  ELSE IF x.i < Len(leg.origins) THEN [i |-> x.i + 1, j |-> 1, k |-> 1]
  ELSE LoopDone

\* Loops that stop at the first query without results.
NextQueryStopOnEmpty(leg, x, flights) ==
  IF flights = <<>> THEN LoopDone ELSE NextIdx(leg, x)
\* The loop body runs for every cursor position, whatever getFlights returned:
\* there is no break or return inside the loops.
NextQuery(leg, x, flights) == NextIdx(leg, x)

\* The new flights put in front of the list.
PushFront(list, flights) == flights \o list
\* results.push(...flights)
Push(list, flights) == list \o flights

\* Rank of a loop cursor in iteration order, from 1.
Position(leg, x) ==
  ((x.i - 1) * Len(leg.destinations) + (x.j - 1)) * Len(leg.dates) + x.k

\* The argument of getFlights at a cursor position.
QueryAt(leg, x) ==
  [origin |-> leg.origins[x.i], destination |-> leg.destinations[x.j], date |-> leg.dates[x.k]]

(***************************************************************************)
(* The cache file.  Its text is kept as a class (kind) and, for            *)
(* well-formed JSON, the JSON value it denotes.                            *)
(***************************************************************************)
EmptyTrip == [depart |-> <<>>, return |-> <<>>]
File(kind) == [kind |-> kind, val |-> EmptyTrip]

\* A value as JSON.stringify writes it and JSON.parse reads it back: a Date
\* becomes its ISO string, a property holding undefined is left out.
FlightToJSON(f) ==
  [f EXCEPT !.departsAt = ToISOString(f.departsAt),
            !.arrivesAt = ToISOString(f.arrivesAt),
            !.carrier   = IF f.carrier.kind = "undefined"
                          THEN [kind |-> "absent", v |-> ""] ELSE f.carrier]

\* A serializer that writes the depart list only.
StringifyDepartOnly(r) ==
  [kind |-> "json",
   val  |-> [depart |-> [n \in 1..Len(r.depart) |-> FlightToJSON(r.depart[n])],
             return |-> <<>>]]
\* JSON.stringify(result, null, 2)
Stringify(r) ==
  [kind |-> "json",
   val  |-> [depart |-> [n \in 1..Len(r.depart) |-> FlightToJSON(r.depart[n])],
             return |-> [n \in 1..Len(r.return) |-> FlightToJSON(r.return[n])]]]

\* A property that is missing reads as undefined.
FlightFromJSON(f) ==
  [f EXCEPT !.carrier = IF f.carrier.kind = "absent" THEN Undefined ELSE f.carrier]

\* readFile is given another path than the one writeFile uses: never a file.
ReadOutcomeOtherPath(file) == "ENOENT"

\* The trim test the wrong way round: if (data.trim()) throw.
ReadOutcomeTrimInverted(file) ==
  IF file.kind = "missing" THEN "ENOENT"
  ELSE IF file.kind \in {"empty", "blank"} THEN "SyntaxError"
  ELSE "Cache is empty"

\* The try block of useFileCache: "ok" when readFile, the trim test and
\* JSON.parse all pass, otherwise what is thrown.
ReadOutcome(file) ==
  IF file.kind = "missing" THEN "ENOENT"
  ELSE IF file.kind \in {"empty", "blank"} THEN "Cache is empty"
  ELSE IF file.kind = "malformed" THEN "SyntaxError"
  ELSE "ok"

\* JSON.parse(data), for data that parses.
Parse(file) ==
  [depart |-> [n \in 1..Len(file.val.depart) |-> FlightFromJSON(file.val.depart[n])],
   return |-> [n \in 1..Len(file.val.return) |-> FlightFromJSON(file.val.return[n])]]

(***************************************************************************)
(* Decisions of the control flow                                           *)
(***************************************************************************)
\* fetchSkyscanner: if (!RAPID_API_KEY) throw
KeyMissing(key) == ~key

\* The mapping is never consulted.
IsCachedNever(cache, name) == FALSE

\* getCityInfo: if (cache.cityInfo[name]) return cache.cityInfo[name]
IsCached(cache, name) == cache[name] # NoInfo

\* The missing suggestion is not tested for.
UnknownCityIgnored(info) == FALSE

\* The descriptor is returned but not kept.
StoreNowhere(cache, name, info) == cache
\* getCityInfo: cache.cityInfo[name] = info
Store(cache, name, info) == [cache EXCEPT ![name] = info]

\* getCityInfo: if (!info) throw new Error(`Unknown city: ...`)
UnknownCity(info) == info = NoInfo

\* fetch(...).then(res => res.json()): the promise rejects when the request
\* fails or the body is no JSON; there is no test of res.ok or res.status.
Rejects(resp) == resp.kind # "json"

\* Only a missing file is taken for a miss, anything else is thrown on.
CaughtMissingFileOnly(outcome) == outcome = "ENOENT"

\* useFileCache: catch (err) takes whatever the try block throws.
Caught(outcome) == TRUE

\* fetchData resolves after the first leg.
AfterLegWriteEarly(t) == "write"

\* A test that looks at the depart leg whatever leg was asked for.
LegMissingChecksDepart(tr, t) == ~tr.depart.present
\* getFlightResults: if (!trip[type]) return []
LegMissing(tr, t) == ~tr[t].present

\* main: fetchData awaits getFlightResults('depart'), then
\* getFlightResults('return'), and only then resolves.
AfterLeg(t) == IF t = "depart" THEN "leg" ELSE "write"

\* The value returned is read back from what was written.
ReturnedReread(computedValue) == Parse(Stringify(computedValue))

\* useFileCache: return result (the value fetchData resolved to).
Returned(computedValue) == computedValue

(***************************************************************************)
(* State                                                                   *)
(***************************************************************************)
VARIABLES
  apiKey,          \* process.env.RAPID_API_KEY is set
  trip,            \* the trip constant: [depart, return], a leg or Absent
  provider,        \* "live": the provider answers anything; "stub": the fixed stub
  blob,            \* cache-results.json
  pc,              \* where the run is
  run,             \* number of the current process run
  type,            \* the leg getFlightResults is collecting
  idx,             \* cursor of the three for-of loops
  originInfo,      \* getFlights: const originInfo
  destinationInfo, \* getFlights: const destinationInfo
  cityInfo,        \* cache.cityInfo
  results,         \* getFlightResults: const results
  departResults,   \* the depart property of the object fetchData is building
  computed,        \* what fetchData resolved to
  result,          \* main: const result, what useFileCache returned
  inflight,        \* provider requests sent and not yet answered
  err,             \* what main().catch received ("" while none)
  \* history of the current run
  blob0,           \* the cache file when the run started
  computeCalls,    \* calls of fetchData
  writes,          \* calls of fs.writeFile
  lookups,         \* auto-complete requests sent, per name
  searches,        \* one-way/list requests sent, per leg, in order
  firstInfo,       \* per name, the descriptor its first successful lookup gave
  resolved,        \* per name, the descriptors getCityInfo returned, in order
  noSuggestion,    \* some auto-complete body held no relevantFlightParams
  httpFailed,      \* some provider call failed at network or HTTP level
  handed,          \* writeToSpreadSheet was called
  wroteRun,        \* the run whose fetchData result the cache file holds (0: none)
  prevErr,         \* err of the run before ("" for none)
  lastReply,       \* the latest one-way/list response and what getFlights made of it
  perQuery,        \* per leg, the lists getFlights returned, in order
  log,             \* provider requests sent and responses received, in order
  prev             \* the run before, if it returned a result and its file is still there

config == <<apiKey, trip, provider>>
locals == <<type, idx, originInfo, destinationInfo, results, departResults>>
hist   == <<blob0, computeCalls, writes, lookups, searches, firstInfo, resolved,
            noSuggestion, httpFailed, handed, wroteRun, prevErr>>
trace  == <<lastReply, perQuery, log, prev>>
vars   == <<apiKey, trip, provider, blob, pc, run, type, idx, originInfo,
            destinationInfo, cityInfo, results, departResults, computed, result,
            inflight, err, blob0, computeCalls, writes, lookups, searches,
            firstInfo, resolved, noSuggestion, httpFailed, handed, wroteRun,
            prevErr, lastReply, perQuery, log, prev>>

NoValue == [set |-> FALSE, val |-> EmptyTrip]
Value(v) == [set |-> TRUE, val |-> v]

D1 == "2025-09-11"
D2 == "2025-09-12"

\* A result as an earlier run of the program would have left it in the file.
SeedFlight ==
  FlightOf(Item(<<FlightLeg(0, "T06", <<>>)>>, 45),
           [date |-> D1], Params("Budapest", "1"), Params("Corfu", "1"))

SeedFiles ==
  { File("missing"), File("empty"), File("blank"), File("malformed"),
    Stringify(EmptyTrip),
    Stringify([depart |-> <<SeedFlight>>, return |-> <<>>]) }

Trips ==
  { [depart |-> LegOf(<<"Budapest">>, <<"Corfu">>, <<D1>>), return |-> Absent],
    [depart |-> LegOf(<<"Budapest", "Berlin">>, <<"Corfu">>, <<D1>>),
     return |-> LegOf(<<"Corfu">>, <<"Budapest">>, <<D2>>)],
    [depart |-> Absent, return |-> LegOf(<<"Corfu">>, <<"Corfu", "Berlin">>, <<D1, D2>>)],
    [depart |-> LegOf(<<"Budapest">>, <<"Corfu">>, <<>>), return |-> Absent],
    [depart |-> Absent, return |-> Absent] }

NoReply == [set |-> FALSE, kind |-> "", status |-> 0, body |-> NoData, flights |-> <<>>]
NoPrev ==
  [set |-> FALSE, blob0 |-> File("missing"), trip |-> [depart |-> Absent, return |-> Absent],
   result |-> EmptyTrip, calls |-> 0]

\* The state of a process that has just been started.
Fresh ==
  [pc |-> "main",
   type |-> "depart",
   idx |-> LoopDone,
   originInfo |-> NoInfo,
   destinationInfo |-> NoInfo,
   cityInfo |-> [n \in Names |-> NoInfo],
   results |-> <<>>,
   departResults |-> <<>>,
   computed |-> NoValue,
   result |-> NoValue,
   inflight |-> {},
   err |-> "",
   computeCalls |-> 0,
   writes |-> 0,
   lookups |-> [n \in Names |-> 0],
   searches |-> [depart |-> <<>>, return |-> <<>>],
   firstInfo |-> [n \in Names |-> NoInfo],
   resolved |-> [n \in Names |-> <<>>],
   noSuggestion |-> FALSE,
   httpFailed |-> FALSE,
   handed |-> FALSE,
   lastReply |-> NoReply,
   perQuery |-> [depart |-> <<>>, return |-> <<>>],
   log |-> <<>>]

Init ==
  /\ apiKey \in BOOLEAN
  /\ trip \in Trips
  /\ provider = "live"
  /\ blob \in SeedFiles
  /\ blob0 = blob
  /\ run = 1
  /\ wroteRun = 0
  /\ prevErr = ""
  /\ pc = Fresh.pc
  /\ type = Fresh.type
  /\ idx = Fresh.idx
  /\ originInfo = Fresh.originInfo
  /\ destinationInfo = Fresh.destinationInfo
  /\ cityInfo = Fresh.cityInfo
  /\ results = Fresh.results
  /\ departResults = Fresh.departResults
  /\ computed = Fresh.computed
  /\ result = Fresh.result
  /\ inflight = Fresh.inflight
  /\ err = Fresh.err
  /\ computeCalls = Fresh.computeCalls
  /\ writes = Fresh.writes
  /\ lookups = Fresh.lookups
  /\ searches = Fresh.searches
  /\ firstInfo = Fresh.firstInfo
  /\ resolved = Fresh.resolved
  /\ noSuggestion = Fresh.noSuggestion
  /\ httpFailed = Fresh.httpFailed
  /\ handed = Fresh.handed
  /\ lastReply = Fresh.lastReply
  /\ perQuery = Fresh.perQuery
  /\ log = Fresh.log
  /\ prev = NoPrev

(***************************************************************************)
(* Actions                                                                 *)
(***************************************************************************)
\* A rejection nobody catches reaches main().catch(console.error).
Fail(e) == pc' = "failed" /\ err' = e

\* The response reports a failure at network or HTTP level.
HttpFailure(resp) == resp.kind = "reject" \/ resp.status \notin 200..299

LookupAnswers(name) == IF provider = "stub" THEN StubLookup(name) ELSE LookupResponses(name)
SearchAnswers == IF provider = "stub" THEN StubSearch ELSE SearchResponses

\* getCityInfo called without await: control goes on with the request pending.
WaitOfNoAwait(role) == IF role = "origin" THEN "destination" ELSE "search"
WaitOf(role) == IF role = "origin" THEN "originWait" ELSE "destinationWait"
NextOf(role) == IF role = "origin" THEN "destination" ELSE "search"

\* main calls useFileCache('results', ...): the try block, and on a throw the
\* call of fetchData up to getFlightResults('depart').
ReadCache ==
  /\ pc = "main"
  /\ LET outcome == ReadOutcome(blob) IN
       IF outcome = "ok"
       THEN /\ result' = Value(Parse(blob))
            /\ handed' = TRUE
            /\ pc' = "present"
            /\ UNCHANGED <<computeCalls, err>>
       ELSE IF Caught(outcome)
       THEN /\ computeCalls' = computeCalls + 1
            /\ pc' = "leg"
            /\ UNCHANGED <<result, handed, err>>
       ELSE /\ Fail(outcome)
            /\ UNCHANGED <<result, handed, computeCalls>>
  /\ UNCHANGED <<config, blob, run, locals, cityInfo, computed, inflight, blob0,
                 writes, lookups, searches, firstInfo, resolved, noSuggestion,
                 httpFailed, wroteRun, prevErr, trace>>

\* getFlightResults returns the list r; fetchData goes on to the next leg or,
\* with both properties evaluated, resolves.
LeaveLeg(r) ==
  /\ pc' = AfterLeg(type)
  /\ idx' = LoopDone
  /\ results' = r
  /\ departResults' = IF type = "depart" THEN r ELSE departResults
  /\ type' = IF AfterLeg(type) = "leg" THEN "return" ELSE type
  /\ computed' = IF AfterLeg(type) = "write"
                 THEN Value([depart |-> IF type = "depart" THEN r ELSE departResults,
                             return |-> IF type = "return" THEN r ELSE <<>>])
                 ELSE computed

\* getFlightResults(type) up to the first getFlights call.
GetFlightResults ==
  /\ pc = "leg"
  /\ LET leg == trip[type] IN
       IF LegMissing(trip, type) \/ FirstIdx(leg) = LoopDone
       THEN LeaveLeg(<<>>)
       ELSE /\ idx' = FirstIdx(leg)
            /\ results' = <<>>
            /\ pc' = "origin"
            /\ UNCHANGED <<type, departResults, computed>>
  /\ UNCHANGED <<config, blob, run, originInfo, destinationInfo, cityInfo, result,
                 inflight, err, hist, trace>>

\* A request (ev "send") or its response (ev "reply") of the query the loops
\* are at; step 1: origin lookup, 2: destination lookup, 3: search.
Event(ev, step) ==
  [ev |-> ev, leg |-> type, pos |-> Position(trip[type], idx), step |-> step]
StepOf(role) == IF role = "origin" THEN 1 ELSE 2

SetInfo(role, info) ==
  /\ originInfo' = IF role = "origin" THEN info ELSE originInfo
  /\ destinationInfo' = IF role = "destination" THEN info ELSE destinationInfo

\* getCityInfo(opt.origin) / getCityInfo(opt.destination) up to its return from
\* the mapping, or up to the request fetchSkyscanner sends.
GetCityInfo(role) ==
  /\ pc = role
  /\ LET name == QueryAt(trip[type], idx)[role] IN
       IF IsCached(cityInfo, name)
       THEN /\ SetInfo(role, cityInfo[name])
            /\ resolved' = [resolved EXCEPT ![name] = Append(@, cityInfo[name])]
            /\ pc' = NextOf(role)
            /\ UNCHANGED <<inflight, lookups, err, log>>
       ELSE IF KeyMissing(apiKey)
       THEN /\ Fail("RAPID_API_KEY environment variable is required.")
            /\ UNCHANGED <<originInfo, destinationInfo, resolved, inflight, lookups, log>>
       ELSE /\ inflight' = inflight \cup {[path |-> "/flights/auto-complete", query |-> name]}
            /\ lookups' = [lookups EXCEPT ![name] = @ + 1]
            /\ log' = Append(log, Event("send", StepOf(role)))
            /\ pc' = WaitOf(role)
            /\ UNCHANGED <<originInfo, destinationInfo, resolved, err>>
  /\ UNCHANGED <<config, blob, run, type, idx, cityInfo, results, departResults,
                 computed, result, blob0, computeCalls, writes, searches, firstInfo,
                 noSuggestion, httpFailed, handed, wroteRun, prevErr, lastReply,
                 perQuery, prev>>

\* The auto-complete response arrives; getCityInfo runs to its end.
LookupReply(role) ==
  /\ pc = WaitOf(role)
  /\ LET name == QueryAt(trip[type], idx)[role] IN
     \E resp \in LookupAnswers(name) :
       /\ inflight' = {}
       /\ log' = Append(log, Event("reply", StepOf(role)))
       /\ httpFailed' = (httpFailed \/ HttpFailure(resp))
       /\ noSuggestion' = (noSuggestion \/ (resp.kind = "json" /\ FirstParams(resp.body) = NoInfo))
       /\ IF Rejects(resp)
          THEN /\ Fail("FetchError")
               /\ UNCHANGED <<originInfo, destinationInfo, cityInfo, firstInfo, resolved>>
          ELSE LET info == FirstParams(resp.body) IN
               IF UnknownCity(info)
               THEN /\ Fail("Unknown city")
                    /\ UNCHANGED <<originInfo, destinationInfo, cityInfo, firstInfo, resolved>>
               ELSE /\ cityInfo' = Store(cityInfo, name, info)
                    /\ firstInfo' = [firstInfo EXCEPT ![name] = IF @ = NoInfo THEN info ELSE @]
                    /\ resolved' = [resolved EXCEPT ![name] = Append(@, info)]
                    /\ SetInfo(role, info)
                    /\ pc' = NextOf(role)
                    /\ err' = err
  /\ UNCHANGED <<config, blob, run, type, idx, results, departResults, computed,
                 result, blob0, computeCalls, writes, lookups, searches, handed,
                 wroteRun, prevErr, lastReply, perQuery, prev>>

\* getFlights after both lookups: the one-way/list request is sent.
SendSearch ==
  /\ pc = "search"
  /\ IF KeyMissing(apiKey)
     THEN /\ Fail("RAPID_API_KEY environment variable is required.")
          /\ UNCHANGED <<inflight, searches, log>>
     ELSE /\ inflight' = inflight \cup {[path |-> "/flights/one-way/list",
                                         query |-> QueryAt(trip[type], idx)]}
          /\ searches' = [searches EXCEPT ![type] = Append(@, QueryAt(trip[type], idx))]
          /\ log' = Append(log, Event("send", 3))
          /\ pc' = "searchWait"
          /\ err' = err
  /\ UNCHANGED <<config, blob, run, locals, cityInfo, computed, result, blob0,
                 computeCalls, writes, lookups, firstInfo, resolved, noSuggestion,
                 httpFailed, handed, wroteRun, prevErr, lastReply, perQuery, prev>>

\* The search response arrives: getFlights runs to its end, its list is pushed
\* and the loops go on to the next getFlights call or end.
SearchReply ==
  /\ pc = "searchWait"
  /\ \E resp \in SearchAnswers :
       /\ inflight' = {}
       /\ log' = Append(log, Event("reply", 3))
       /\ httpFailed' = (httpFailed \/ HttpFailure(resp))
       /\ IF Rejects(resp)
          THEN /\ Fail("FetchError")
               /\ lastReply' = [set |-> TRUE, kind |-> resp.kind, status |-> resp.status,
                                body |-> resp.body, flights |-> <<>>]
               /\ UNCHANGED <<locals, computed, perQuery>>
          ELSE LET leg     == trip[type]
                   flights == FlightsOf(resp.body, QueryAt(leg, idx),
                                        originInfo, destinationInfo)
                   r       == Push(results, flights)
               IN /\ err' = err
                  /\ lastReply' = [set |-> TRUE, kind |-> resp.kind, status |-> resp.status,
                                   body |-> resp.body, flights |-> flights]
                  /\ perQuery' = [perQuery EXCEPT ![type] = Append(@, flights)]
                  /\ UNCHANGED <<originInfo, destinationInfo>>
                  /\ IF NextQuery(leg, idx, flights) = LoopDone
                     THEN LeaveLeg(r)
                     ELSE /\ idx' = NextQuery(leg, idx, flights)
                          /\ results' = r
                          /\ pc' = "origin"
                          /\ UNCHANGED <<type, departResults, computed>>
  /\ UNCHANGED <<config, blob, run, cityInfo, result, blob0, computeCalls, writes,
                 lookups, searches, firstInfo, resolved, noSuggestion, handed,
                 wroteRun, prevErr, prev>>

\* useFileCache after fetchData resolved: writeFile, return; main calls
\* writeToSpreadSheet with the value.
WriteCache ==
  /\ pc = "write"
  /\ blob' = Stringify(computed.val)
  /\ writes' = writes + 1
  /\ wroteRun' = run
  /\ result' = Value(Returned(computed.val))
  /\ handed' = TRUE
  /\ pc' = "present"
  /\ UNCHANGED <<config, run, locals, cityInfo, computed, inflight, err, blob0,
                 computeCalls, lookups, searches, firstInfo, resolved, noSuggestion,
                 httpFailed, prevErr, trace>>

\* writeToSpreadSheet ends: the document API took the rows, or it threw.
Present ==
  /\ pc = "present"
  /\ \E ok \in BOOLEAN :
       /\ pc' = IF ok THEN "done" ELSE "failed"
       /\ err' = IF ok THEN err ELSE "spreadsheet"
  /\ UNCHANGED <<config, blob, run, locals, cityInfo, computed, result, inflight,
                 hist, trace>>

\* Number of provider requests the run has sent.
IsSend(e) == e.ev = "send"
ProviderCalls == Len(SelectSeq(log, IsSend))

\* A new process: the trip constant is t, the cache file is b.
Restart(t, b) ==
  /\ pc \in {"done", "failed"}
  /\ run < MaxRuns
  /\ run' = run + 1
  /\ apiKey' \in BOOLEAN
  /\ trip' = t
  /\ blob' = b
  /\ blob0' = b
  /\ wroteRun' = IF b = blob THEN wroteRun ELSE 0
  /\ prevErr' = err
  /\ prev' = IF b = blob /\ result.set
             THEN [set |-> TRUE, blob0 |-> blob0, trip |-> trip, result |-> result.val,
                   calls |-> ProviderCalls]
             ELSE NoPrev
  /\ pc' = Fresh.pc
  /\ type' = Fresh.type
  /\ idx' = Fresh.idx
  /\ originInfo' = Fresh.originInfo
  /\ destinationInfo' = Fresh.destinationInfo
  /\ cityInfo' = Fresh.cityInfo
  /\ results' = Fresh.results
  /\ departResults' = Fresh.departResults
  /\ computed' = Fresh.computed
  /\ result' = Fresh.result
  /\ inflight' = Fresh.inflight
  /\ err' = Fresh.err
  /\ computeCalls' = Fresh.computeCalls
  /\ writes' = Fresh.writes
  /\ lookups' = Fresh.lookups
  /\ searches' = Fresh.searches
  /\ firstInfo' = Fresh.firstInfo
  /\ resolved' = Fresh.resolved
  /\ noSuggestion' = Fresh.noSuggestion
  /\ httpFailed' = Fresh.httpFailed
  /\ handed' = Fresh.handed
  /\ lastReply' = Fresh.lastReply
  /\ perQuery' = Fresh.perQuery
  /\ log' = Fresh.log
  /\ provider' = provider

\* The process is started again in the same directory; in between the key may
\* have been set or unset and the cache file deleted or edited.
NextRun == \E b \in {blob} \cup SeedFiles : Restart(trip, b)

\* The trip constant is edited and the process started again, the cache file
\* left as it is.
NextRunOtherTrip == \E t \in Trips \ {trip} : Restart(t, blob)

Next ==
  \/ ReadCache
  \/ GetFlightResults
  \/ GetCityInfo("origin")
  \/ GetCityInfo("destination")
  \/ LookupReply("origin")
  \/ LookupReply("destination")
  \/ SendSearch
  \/ SearchReply
  \/ WriteCache
  \/ Present
  \/ NextRun

Spec == Init /\ [][Next]_vars

\* Runs between which the trip constant may be edited as well.
NextTrips == Next \/ NextRunOtherTrip

SpecTrips == Init /\ [][NextTrips]_vars

(***************************************************************************)
(* The loops alone: every leg with lists of up to MaxList entries, run     *)
(* against the provider stub with the key set and no cache file.           *)
(***************************************************************************)
ListsOver(S) == UNION {[1..m -> S] : m \in 1..MaxList}

GenLegs ==
  { LegOf(o, d, t) : o \in ListsOver({"Budapest", "Berlin"}),
                     d \in ListsOver({"Corfu", "Berlin"}),
                     t \in ListsOver(Dates) }

InitExpand ==
  /\ apiKey = TRUE
  /\ trip \in {[depart |-> l, return |-> Absent] : l \in GenLegs}
            \cup {[depart |-> Absent, return |-> l] : l \in GenLegs}
  /\ provider = "stub"
  /\ blob = File("missing")
  /\ blob0 = blob
  /\ run = 1
  /\ wroteRun = 0
  /\ prevErr = ""
  /\ pc = Fresh.pc
  /\ type = Fresh.type
  /\ idx = Fresh.idx
  /\ originInfo = Fresh.originInfo
  /\ destinationInfo = Fresh.destinationInfo
  /\ cityInfo = Fresh.cityInfo
  /\ results = Fresh.results
  /\ departResults = Fresh.departResults
  /\ computed = Fresh.computed
  /\ result = Fresh.result
  /\ inflight = Fresh.inflight
  /\ err = Fresh.err
  /\ computeCalls = Fresh.computeCalls
  /\ writes = Fresh.writes
  /\ lookups = Fresh.lookups
  /\ searches = Fresh.searches
  /\ firstInfo = Fresh.firstInfo
  /\ resolved = Fresh.resolved
  /\ noSuggestion = Fresh.noSuggestion
  /\ httpFailed = Fresh.httpFailed
  /\ handed = Fresh.handed
  /\ lastReply = Fresh.lastReply
  /\ perQuery = Fresh.perQuery
  /\ log = Fresh.log
  /\ prev = NoPrev

NextExpand ==
  \/ ReadCache
  \/ GetFlightResults
  \/ GetCityInfo("origin")
  \/ GetCityInfo("destination")
  \/ LookupReply("origin")
  \/ LookupReply("destination")
  \/ SendSearch
  \/ SearchReply
  \/ WriteCache
  \/ Present

SpecExpand == InitExpand /\ [][NextExpand]_vars

\* One run of the process to its end.  Every await settles: the provider
\* answers or the request is rejected, and the file system calls return, so a
\* step that can be taken is taken.
SpecRun == Init /\ [][NextExpand]_vars /\ WF_vars(NextExpand)

(***************************************************************************)
(* Properties                                                              *)
(***************************************************************************)
NoProviderCalls ==
  /\ \A n \in Names : lookups[n] = 0
  /\ searches.depart = <<>>
  /\ searches.return = <<>>
  /\ inflight = {}

\* Number of getFlights calls a leg asks for.
QueryCount(leg) ==
  IF leg.present THEN Len(leg.origins) * Len(leg.destinations) * Len(leg.dates) ELSE 0

\* getFlightResults(t) has returned in this run.
LegReturned(t) == computeCalls = 1 /\ (computed.set \/ (t = "depart" /\ type = "return"))

ReadErrors == {"ENOENT", "Cache is empty", "SyntaxError"}

\* C1 as stated: whenever the cache file exists and is non-empty after
\* trimming, useFileCache returns the parsed content, fetchData is never
\* called and no provider call is made.
C1_AsStated ==
  blob0.kind \notin {"missing", "empty", "blank"} =>
    /\ computeCalls = 0
    /\ NoProviderCalls
    /\ (result.set => result.val = Parse(blob0))

\* C1 amended: whenever the cache file exists, is non-empty after trimming and
\* is well-formed JSON, useFileCache returns the parsed content, fetchData is
\* never called and no provider call is made in that run.
C1_ParseableBlobSkipsCompute ==
  blob0.kind = "json" =>
    /\ computeCalls = 0
    /\ computed = NoValue
    /\ NoProviderCalls
    /\ (pc # "main" => result = Value(Parse(blob0)))

C1_Witness ==
  /\ blob0.kind = "json"
  /\ pc = "done"
  /\ computeCalls = 0
  /\ Len(result.val.depart) > 0

\* C2: with no cache file, fetchData is called once and never twice, the file
\* is written at most once and only after fetchData resolved, with the
\* serialization of its value, and a useFileCache call that returns has
\* called fetchData once, written once, and returns that value.  (A run whose
\* fetchData rejects never writes: C4.)
C2_MissComputesOnceThenWrites ==
  blob0.kind = "missing" =>
    /\ computeCalls <= 1
    /\ writes <= 1
    /\ (pc # "main" => computeCalls = 1)
    /\ (writes = 1 => computed.set /\ blob = Stringify(computed.val))
    /\ (result.set => /\ computeCalls = 1
                      /\ writes = 1
                      /\ computed.set
                      /\ result.val = computed.val)

C2_Witness ==
  /\ blob0.kind = "missing"
  /\ pc = "done"
  /\ writes = 1
  /\ Len(result.val.depart) > 0
  /\ Len(result.val.return) > 0

\* C3: a cache file that is missing, empty, blank or malformed is a miss:
\* fetchData is called, a run that gets its value rewrites the file, and the
\* error of the read is never the error of the run.
C3_ReadFailureIsMiss ==
  blob0.kind \in {"missing", "empty", "blank", "malformed"} =>
    /\ (pc # "main" => computeCalls = 1)
    /\ err \notin ReadErrors
    /\ (result.set => writes = 1 /\ blob = Stringify(computed.val))

C3_Witness ==
  /\ blob0.kind = "malformed"
  /\ pc = "done"
  /\ blob.kind = "json"
  /\ computeCalls = 1

C5_LaterRunsUseCache ==
  (wroteRun >= 1 /\ wroteRun < run) =>
    /\ computeCalls = 0
    /\ NoProviderCalls
    /\ blob = blob0
    /\ (pc # "main" => /\ handed
                       /\ result = Value(Parse(blob0))
                       /\ pc \in {"present", "done", "failed"}
                       /\ err \in {"", "spreadsheet"})

C5_Witness ==
  /\ run = 2
  /\ wroteRun = 1
  /\ prevErr = "spreadsheet"
  /\ pc = "done"
  /\ Len(result.val.depart) > 0

\* C6 as stated: in a run without the API key nothing is returned from the
\* cache, nothing is handed to the presenter, and the run ends with the
\* missing-key error.
C6_AsStated ==
  ~apiKey =>
    /\ ~result.set
    /\ ~handed
    /\ (pc \in {"done", "failed"} =>
          err = "RAPID_API_KEY environment variable is required.")

\* C7: for a leg with non-empty lists the getFlights calls are, in order, the
\* combinations (origins[i], destinations[j], dates[k]) at position
\* ((i*|destinations|)+j)*|dates|+k (from 0), all of them once the leg has
\* returned, repeated combinations included.
C7_CrossProductOrder ==
  \A t \in {"depart", "return"} :
    LET leg == trip[t]
        D == Len(leg.destinations)
        T == Len(leg.dates)
        issued == searches[t]
    IN (leg.present /\ Len(leg.origins) > 0 /\ D > 0 /\ T > 0) =>
         /\ Len(issued) <= Len(leg.origins) * D * T
         /\ \A p \in 1..Len(issued) :
              issued[p] = [origin      |-> leg.origins[((p - 1) \div (D * T)) + 1],
                           destination |-> leg.destinations[(((p - 1) \div T) % D) + 1],
                           date        |-> leg.dates[((p - 1) % T) + 1]]
         /\ (LegReturned(t) => Len(issued) = Len(leg.origins) * D * T)

C7_Witness ==
  /\ pc = "done"
  /\ Len(trip.depart.origins) = 2
  /\ Len(trip.depart.destinations) = 2
  /\ Len(trip.depart.dates) = 2
  /\ Len(searches.depart) = 8
  /\ searches.depart[1] = searches.depart[5]

\* C8: within a run at most one auto-complete request is sent per name, and
\* every descriptor getCityInfo returns for a name is the one its first
\* successful lookup obtained.
C8_ResolveMemoized ==
  \A n \in Names :
    /\ lookups[n] <= 1
    /\ (Len(resolved[n]) > 0 => firstInfo[n] # NoInfo /\ lookups[n] = 1)
    /\ \A q \in 1..Len(resolved[n]) : resolved[n][q] = firstInfo[n]

C8_Witness ==
  \E n \in Names :
    /\ Len(resolved[n]) >= 2
    /\ lookups[n] = 1
    /\ firstInfo[n].entityId = "2"

\* C9: once an auto-complete answer holds no usable suggestion the run has
\* failed with the unknown-city error, no search request was sent for that
\* query or any later one, and the cache file is as it was.
C9_MissingCityAborts ==
  noSuggestion =>
    /\ pc = "failed"
    /\ err = "Unknown city"
    /\ inflight = {}
    /\ Len(searches[type]) = Position(trip[type], idx) - 1
    /\ (type = "depart" => searches.return = <<>>)
    /\ writes = 0
    /\ blob = blob0
    /\ ~handed

C9_Witness ==
  /\ noSuggestion
  /\ err = "Unknown city"
  /\ type = "depart"
  /\ trip.return.present
  /\ Len(searches.depart) = 1
  /\ Len(results) > 0

\* C10 as stated: a run in which a provider call failed at network or HTTP
\* level neither writes the cache file nor reaches the presenter.
C10_AsStated ==
  httpFailed => (writes = 0 /\ ~handed)

\* First bucket of a response body, or the empty list.
FirstBucketItems(body) == IF HasFirstBucket(body) THEN body.buckets[1].items ELSE <<>>

\* The flight comes from the item: same price, and the item's first leg
\* departs when the flight does.
MadeFrom(flight, item) ==
  /\ Len(item.legs) > 0
  /\ flight.price = item.price
  /\ flight.departsAt = NewDate(item.legs[1].departure)

\* C11: every FlightResult that getFlights returns is made from an item of the
\* first bucket whose first leg has stopCount 0; an item whose first leg has a
\* non-zero stopCount, an item without a first leg and an item of a later
\* bucket never appear in the output.  (Prices are distinct within a response,
\* so a price identifies its item.)
C11_NonStopFirstBucketOnly ==
  lastReply.set =>
    LET out   == lastReply.flights
        first == FirstBucketItems(lastReply.body)
        later == IF lastReply.body.hasBuckets THEN lastReply.body.buckets ELSE <<>>
    IN /\ \A n \in 1..Len(out) :
            \E m \in 1..Len(first) :
               /\ MadeFrom(out[n], first[m])
               /\ first[m].legs[1].stopCount = 0
       /\ \A m \in 1..Len(first) :
            (Len(first[m].legs) = 0 \/ first[m].legs[1].stopCount # 0)
               => \A n \in 1..Len(out) : out[n].price # first[m].price
       /\ \A b \in 2..Len(later) : \A m \in 1..Len(later[b].items) :
            \A n \in 1..Len(out) : out[n].price # later[b].items[m].price

\* C11 witness: a response with a one-stop item and two buckets, of which
\* getFlights kept two flights.
C11_Witness ==
  /\ lastReply.set
  /\ Len(lastReply.flights) = 2
  /\ Len(lastReply.body.buckets) = 2
  /\ \E m \in 1..Len(lastReply.body.buckets[1].items) :
        LET it == lastReply.body.buckets[1].items[m]
        IN Len(it.legs) > 0 /\ it.legs[1].stopCount = 1

\* C12: when the response to a search parses as JSON and has no first bucket
\* (no data, no itineraries, no buckets list, or an empty one), getFlights
\* returns the empty list and nothing is thrown: the leg's list is left as it
\* was, and the loops go on to the next query if there is one, else the leg
\* returns.
C12_NoBucketIsEmptyList ==
  [][ (pc = "searchWait" /\ lastReply'.kind = "json" /\ ~HasFirstBucket(lastReply'.body))
        => LET leg == trip[type]
           IN /\ lastReply'.flights = <<>>
              /\ perQuery'[type] = Append(perQuery[type], <<>>)
              /\ err' = ""
              /\ pc' # "failed"
              /\ IF Position(leg, idx) < QueryCount(leg)
                 THEN /\ pc' = "origin"
                      /\ type' = type
                      /\ results' = results
                      /\ Position(leg, idx') = Position(leg, idx) + 1
                 ELSE /\ pc' \in {"leg", "write"}
                      /\ type = "depart" => departResults' = results
                      /\ type = "return" => computed'.val.return = results ]_vars

\* C12 witness: a 200 response with data but no itineraries was answered with
\* the empty list, and the loops stand at the next query of the leg.
C12_Witness ==
  /\ lastReply.set
  /\ lastReply.kind = "json"
  /\ lastReply.status = 200
  /\ lastReply.body.hasData
  /\ ~lastReply.body.hasItineraries
  /\ lastReply.flights = <<>>
  /\ pc = "origin"
  /\ Position(trip[type], idx) > 1
  /\ err = ""

\* What getFlightResults(t) returned, once it has.
LegResult(t) == IF t = "depart" THEN departResults ELSE computed.val.return

OtherLeg(t) == IF t = "depart" THEN "return" ELSE "depart"

\* C13: a leg the trip does not define is collected without any provider
\* request (no lookup, no search is ever sent for it) and its result is the
\* empty list, while a leg the trip does define is collected in full, one
\* search per query of its expansion, whether or not the other leg is there.
C13_AbsentLegIsEmpty ==
  \A t \in {"depart", "return"} :
     /\ ~trip[t].present =>
          /\ searches[t] = <<>>
          /\ perQuery[t] = <<>>
          /\ \A n \in 1..Len(log) : log[n].leg # t
          /\ type = t => pc \in {"main", "leg", "write", "present", "done", "failed"}
          /\ LegReturned(t) => LegResult(t) = <<>>
     /\ (trip[t].present /\ LegReturned(t)) =>
          /\ Len(searches[t]) = QueryCount(trip[t])
          /\ Len(perQuery[t]) = QueryCount(trip[t])

\* C13 witness: the depart leg is absent and was collected as the empty list
\* without a request; the return leg was collected after it, four searches and
\* some flight.
C13_Witness ==
  /\ ~trip.depart.present
  /\ trip.return.present
  /\ pc = "done"
  /\ computeCalls = 1
  /\ computed.set
  /\ computed.val.depart = <<>>
  /\ searches.depart = <<>>
  /\ Len(searches.return) = QueryCount(trip.return)
  /\ QueryCount(trip.return) > 1
  /\ Len(computed.val.return) > 0

\* This run read the file that the run before wrote, and both returned.
HitAfterMiss ==
  /\ run >= 2
  /\ wroteRun = run - 1
  /\ prev.set
  /\ computeCalls = 0
  /\ result.set

\* C14 as stated: the TripResult of the cache-hit run equals the TripResult of
\* the cache-miss run before it, departsAt and arrivesAt included.
C14_AsStated ==
  HitAfterMiss => result.val = prev.result

\* The flight read back from the file against the flight that was written:
\* the same but for departsAt and arrivesAt, Date objects before and their
\* ISO strings after.
SameButDates(hit, miss) ==
  /\ hit.date = miss.date
  /\ hit.origin = miss.origin
  /\ hit.destination = miss.destination
  /\ hit.url = miss.url
  /\ hit.price = miss.price
  /\ hit.carrier = miss.carrier
  /\ miss.departsAt.kind = "Date"
  /\ miss.arrivesAt.kind = "Date"
  /\ hit.departsAt = [kind |-> "string", v |-> miss.departsAt.v \o ":00:00.000Z"]
  /\ hit.arrivesAt = [kind |-> "string", v |-> miss.arrivesAt.v \o ":00:00.000Z"]

\* C14 amended: the TripResult of the cache-hit run has the flights of the
\* cache-miss run before it, in the same order in both legs, each equal field
\* by field except that departsAt and arrivesAt are the ISO strings of the
\* Dates the miss run returned; a carrier that was undefined reads as
\* undefined again.
C14_RoundTripUpToDates ==
  HitAfterMiss =>
    \A t \in {"depart", "return"} :
       /\ Len(result.val[t]) = Len(prev.result[t])
       /\ \A n \in 1..Len(result.val[t]) : SameButDates(result.val[t][n], prev.result[t][n])

\* C14 witness: a hit run after a miss run, flights in both legs, one of them
\* without a carrier.
C14_Witness ==
  /\ HitAfterMiss
  /\ pc = "done"
  /\ Len(result.val.depart) > 0
  /\ Len(result.val.return) > 0
  /\ \E n \in 1..Len(result.val.depart) : result.val.depart[n].carrier = Undefined
  /\ \E n \in 1..Len(prev.result.return) : prev.result.return[n].carrier # Undefined

LegRank(t) == IF t = "depart" THEN 1 ELSE 2

\* Event a comes before event b in the order leg, query, step.
Earlier(a, b) ==
  \/ LegRank(a.leg) < LegRank(b.leg)
  \/ a.leg = b.leg /\ a.pos < b.pos
  \/ a.leg = b.leg /\ a.pos = b.pos /\ a.step < b.step

\* C15: provider access is strictly sequential.  At most one request is in
\* flight; every request is sent only after the response to the one before
\* it has come, so requests and responses alternate; the requests of a run
\* are sent in the order leg (depart before return), then query position
\* within the leg, then step within the query (origin lookup, destination
\* lookup, search), so that the N-th query's requests follow the completion
\* of the (N-1)-th and every depart query completes before the first return
\* request.
C15_StrictlySequential ==
  /\ Cardinality(inflight) <= 1
  /\ inflight # {} <=> (Len(log) > 0 /\ log[Len(log)].ev = "send")
  /\ \A n \in 1..Len(log) :
        IF n % 2 = 1
        THEN /\ log[n].ev = "send"
             /\ n > 2 => Earlier(log[n - 2], log[n])
        ELSE log[n] = [log[n - 1] EXCEPT !.ev = "reply"]
  /\ \A n \in 1..Len(log) :
        (log[n].leg = "return" /\ trip.depart.present)
           => \E m \in 1..(n - 1) :
                 log[m] = [ev |-> "reply", leg |-> "depart",
                           pos |-> QueryCount(trip.depart), step |-> 3]

\* C15 witness: both legs were collected and the run is over; the first
\* depart query sent all three requests, the second a lookup and a search, the
\* return query its search after them.
C15_Witness ==
  /\ pc = "done"
  /\ computeCalls = 1
  /\ trip.depart.present
  /\ trip.return.present
  /\ \E n \in 1..Len(log) : log[n] = [ev |-> "send", leg |-> "depart", pos |-> 1, step |-> 2]
  /\ \E n \in 1..Len(log) : log[n] = [ev |-> "send", leg |-> "depart", pos |-> 2, step |-> 1]
  /\ \E n \in 1..Len(log) : log[n] = [ev |-> "send", leg |-> "return", pos |-> 1, step |-> 3]
  /\ Len(log) >= 12

RECURSIVE Flatten(_)
\* The lists of a sequence of lists, one after the other.
Flatten(lists) ==
  IF lists = <<>> THEN <<>> ELSE Head(lists) \o Flatten(Tail(lists))

\* The p-th query of a leg's expansion, from 1.
NthQuery(leg, p) ==
  LET D == Len(leg.destinations)
      T == Len(leg.dates)
  IN [origin      |-> leg.origins[((p - 1) \div (D * T)) + 1],
      destination |-> leg.destinations[(((p - 1) \div T) % D) + 1],
      date        |-> leg.dates[((p - 1) % T) + 1]]

\* A provider call threw, or the key was missing: fetchData did not return.
CallFailed ==
  /\ pc = "failed"
  /\ writes = 0
  /\ err \in {"FetchError", "Unknown city", "RAPID_API_KEY environment variable is required."}

\* What holds of a cache-miss run at every moment.
CollectedInOrder ==
  computeCalls = 1 =>
    /\ \A t \in {"depart", "return"} :
          /\ Len(searches[t]) <= QueryCount(trip[t])
          /\ \A p \in 1..Len(searches[t]) : searches[t][p] = NthQuery(trip[t], p)
          /\ Len(perQuery[t]) \in {Len(searches[t]), Len(searches[t]) - 1}
          /\ (type = t /\ pc \in {"origin", "originWait", "destination", "destinationWait",
                                  "search", "searchWait"})
                => results = Flatten(perQuery[t])
          /\ LegReturned(t) =>
               /\ Len(searches[t]) = QueryCount(trip[t])
               /\ Len(perQuery[t]) = QueryCount(trip[t])
               /\ LegResult(t) = Flatten(perQuery[t])
    /\ lastReply.set =>
          LET out   == lastReply.flights
              first == FirstBucketItems(lastReply.body)
          IN \A n \in 1..(Len(out) - 1) :
                \E a \in 1..Len(first) : \E b \in (a + 1)..Len(first) :
                   MadeFrom(out[n], first[a]) /\ MadeFrom(out[n + 1], first[b])
    /\ (pc \in {"present", "done"} \/ (pc = "failed" /\ ~CallFailed)) =>
          /\ writes = 1
          /\ computed.set
          /\ blob = Stringify(computed.val)

\* C16: in a cache-miss run, collecting a leg sends exactly one search per
\* query of the expansion, in expansion order, whether or not earlier queries
\* gave no flights; the leg's list is the per-query lists one after the other
\* in query order, each in the order of the provider's first bucket; and
\* unless a call fails the run goes on to write the cache file with the
\* collected result.
C16_OneSearchPerQueryThenWrite ==
  /\ []CollectedInOrder
  /\ (computeCalls = 1) ~> (writes = 1 \/ CallFailed)

\* C16 witness: the run ended with the file written and no failed call; the
\* first depart query gave no flights, the second gave two.
C16_Witness ==
  /\ pc = "done"
  /\ computeCalls = 1
  /\ writes = 1
  /\ ~httpFailed
  /\ Len(perQuery.depart) = 2
  /\ perQuery.depart[1] = <<>>
  /\ Len(perQuery.depart[2]) = 2
  /\ Len(computed.val.return) > 0

\* The descriptors a lookup of a name can return as usable.
Usable(name) ==
  {FirstParams(r.body) : r \in {x \in LookupResponses(name) : x.kind = "json"}} \ {NoInfo}

\* What holds of cache.cityInfo at every moment of a run.
CityInfoEntries ==
  \A n \in Names :
     /\ cityInfo[n] = firstInfo[n]
     /\ cityInfo[n] # NoInfo => (lookups[n] = 1 /\ cityInfo[n] \in Usable(n))
     /\ Len(resolved[n]) > 0 => cityInfo[n] # NoInfo
     /\ \A q \in 1..Len(resolved[n]) : resolved[n][q] = cityInfo[n]

\* How cache.cityInfo changes in a step of a run.
CityInfoStep ==
  run' = run =>
    /\ \A n \in Names : cityInfo[n] # NoInfo => cityInfo'[n] = cityInfo[n]
    /\ cityInfo' # cityInfo =>
         /\ pc \in {"originWait", "destinationWait"}
         /\ pc' \in {"destination", "search"}
         /\ \E n \in Names : Len(resolved'[n]) = Len(resolved[n]) + 1 /\ cityInfo'[n] # NoInfo
    /\ (pc \in {"originWait", "destinationWait"} /\ pc' = "failed") => cityInfo' = cityInfo

\* C17: cache.cityInfo holds an entry for a name only if a lookup of the name
\* returned a usable suggestion, and the entry is the descriptor of the first
\* such lookup; the entry is there by the time getCityInfo returns it; within
\* a run an entry is never removed or replaced, entries appear only when a
\* lookup succeeds, and a lookup that fails inserts nothing.
C17_CityInfoMapping ==
  /\ []CityInfoEntries
  /\ [][CityInfoStep]_vars

\* C17 witness: a lookup failed while the cache held an entry that had been
\* returned before, the second suggestion set's first descriptor.
C17_Witness ==
  /\ pc = "failed"
  /\ err = "Unknown city"
  /\ Len(log) > 0
  /\ log[Len(log)].step = 2
  /\ \E n \in Names :
        /\ cityInfo[n] # NoInfo
        /\ cityInfo[n].entityId = "2"
        /\ Len(resolved[n]) = 1
  /\ \E n \in Names : cityInfo[n] = NoInfo /\ lookups[n] = 1

\* This run and the run before it started with the same cache file, one that
\* reads and parses, and with different trip constants; the run before
\* returned.
SameBlobOtherTrip ==
  /\ prev.set
  /\ prev.trip # trip
  /\ prev.blob0 = blob0
  /\ blob0.kind = "json"

\* C18: the cache is looked up under the fixed name alone.  Of two runs that
\* start with the same parseable file and differ in the trip constant, neither
\* sends a provider request nor calls fetchData nor writes the file, and both
\* return the same TripResult, the parsed file.
C18_TripNotInCacheKey ==
  SameBlobOtherTrip =>
    /\ prev.calls = 0
    /\ prev.result = Parse(blob0)
    /\ NoProviderCalls
    /\ computeCalls = 0
    /\ writes = 0
    /\ blob = blob0
    /\ result.set => result.val = prev.result

\* C18 witness: the file holds a flight; the run before had a trip with both
\* legs defined, this run has a trip with only a return leg, and it returned
\* the file's flight all the same.
C18_Witness ==
  /\ SameBlobOtherTrip
  /\ pc = "done"
  /\ result.set
  /\ Len(result.val.depart) = 1
  /\ prev.trip.depart.present
  /\ prev.trip.return.present
  /\ ~trip.depart.present
  /\ trip.return.present

====
